---- MODULE Spec2Model ----
(***************************************************************************)
(* Presence & messaging gateway of the chat backend                        *)
(* (websocket/socket.js) together with the send-message routes             *)
(* (routes/messages.js and its auto-create variant) and the refresh-token  *)
(* rotation (routes/auth.js, middleware/auth.js).                          *)
(*                                                                         *)
(* One action per handler.  A handler that awaits the database is split at *)
(* the await: the part before it issues the query, a second action settles *)
(* the query (success or failure) and runs the code after the await.       *)
(***************************************************************************)
EXTENDS Integers, FiniteSets, Sequences, TLC

\* ---------------------------------------------------------------- bounds
NumConns == 2      \* transport connections ever opened (socket ids 1..NumConns)
NumUsers == 2      \* rows of the users table (ids 1..NumUsers)
NumChats == 2      \* rows of the chats table (ids 1..NumChats)
NumMsgs  == 1      \* messages ever inserted (ids 1..NumMsgs)
MaxReads == 1      \* mark-as-read queries in flight at once
MaxNewChats == 2   \* chats created by the auto-create send route
NumReqs == 2       \* POST /auth/refresh requests handled at once
MaxClock == 1      \* seconds of wall-clock time that pass (0..MaxClock)

Conns   == 1..NumConns
Users   == 1..NumUsers
Chats   == 1..NumChats
Msgs    == 1..NumMsgs
Reqs    == 1..NumReqs
Clock   == 0..MaxClock
None    == 0
\* a token subject that has no row in the users table
GhostUser == NumUsers + 1
\* a chat id that has no row in the chats table
GhostChat == NumChats + 1

\* chat_participants fixture: chat 1 has every user, chat k lacks the last k-1
Participants(ch) == {u \in Users : u <= NumUsers + 1 - ch}

\* ---------------------------------------------------------------- state
VARIABLES
  nextConn,        \* next socket id the transport hands out
  connState,       \* per socket: "new" | "rejected" | "open" | "closed"
  handshake,       \* per socket: the token presented and the user lookup result
  authError,       \* per socket: the Error passed to next() ("" when none)
  socketUser,      \* per socket: socket.userId (None until admitted)
  connectedUsers,  \* the Map userId -> {socketId,...} as a set of entries
  rooms,           \* per socket: the rooms it is in (socket.io adapter)
  statusCall,      \* per socket: state of its two updateUserStatus calls
  dbOnline,        \* users.is_online
  readCalls,       \* mark-as-read queries in flight (message_read handlers)
  messages,        \* rows of the messages table
  readMsgs,        \* ids of messages whose delivery_status is 'read'
  post,            \* the POST /messages/:chatId request being handled
  emitted,         \* events emitted by the last step, with their recipients
  newMessageSeen,  \* <<socket, message id>> pairs: new_message events received
  processUp,       \* the node process is running (no uncaught exception yet)
  chats,           \* rows of the chats table: [id, isGroup]
  chatParticipants, \* rows of the chat_participants table: <<chat id, user id>>
  clock,           \* wall-clock time in whole seconds (the iat of a token signed now)
  sessions,        \* refresh_token values with a row in user_sessions
  refresh,         \* per request slot: the POST /auth/refresh being handled
  redeemed,        \* refresh tokens whose redemption was answered 200
  edited,          \* ids of messages whose content was replaced by a PUT
  modify,          \* the PUT or DELETE /messages/:messageId being handled
  nextMsg          \* id the next inserted messages row gets (ids are never reused)

vars == <<nextConn, connState, handshake, authError, socketUser, connectedUsers,
          rooms, statusCall, dbOnline, readCalls, messages, readMsgs, post,
          emitted, newMessageSeen, processUp, chats, chatParticipants,
          clock, sessions, refresh, redeemed, edited, modify, nextMsg>>

\* ---------------------------------------------------------------- rooms
UserRoom(u) == [kind |-> "user", id |-> u]
ChatRoom(ch) == [kind |-> "chat", id |-> ch]

\* socket.join(room) / socket.leave(room) on the adapter's room table rs
socketJoin_ReplacesRooms(rs, c, room) == [rs EXCEPT ![c] = {room}]

socketJoin(rs, c, room) == [rs EXCEPT ![c] = @ \cup {room}]

socketLeave_KeepsMember(rs, c, room) == rs

socketLeave(rs, c, room) == [rs EXCEPT ![c] = @ \ {room}]

leaveAll_KeepsRooms(rs, c) == rs

\* socket.io on close: the socket is taken out of every room
leaveAll(rs, c) == [rs EXCEPT ![c] = {}]

\* ---------------------------------------------------------------- tokens
NoToken == [kind |-> "none", userId |-> None]
Tokens ==
  {NoToken}
    \cup {[kind |-> k, userId |-> None] : k \in {"invalid", "expired"}}
    \cup [kind : {"valid"}, userId : Users \cup {GhostUser}]

NoHandshake == [token |-> NoToken, lookup |-> "not_run"]

\* ---------------------------------------------------------------- Map
MapHas(m, k) == \E e \in m : e.userId = k

MapSet_NoReplace(m, k, sid) == m \cup {[userId |-> k, socketId |-> sid]}

MapSet(m, k, sid) ==
  {e \in m : e.userId # k} \cup {[userId |-> k, socketId |-> sid]}

MapDelete_KeepsEntry(m, k) == m

MapDelete(m, k) == {e \in m : e.userId # k}

\* ---------------------------------------------------------------- emits
Event(name, from, to, u, on, ch, mid) ==
  [name |-> name, from |-> from, to |-> to, userId |-> u, isOnline |-> on,
   chatId |-> ch, messageId |-> mid]

\* io.emit: every connected socket of the namespace
IoEmit == {c \in Conns : connState[c] = "open"}

IoTo_Broadcast(room) == IoEmit

\* io.to(room): every socket that is in the room
IoTo(room) == {c \in Conns : room \in rooms[c]}

SocketTo_IncludingSelf(c, room) == IoTo(room)

\* socket.to(room): every socket in the room except the emitting socket
SocketTo(c, room) == IoTo(room) \ {c}

\* ---------------------------------------------------------------- table reads
\* SELECT id FROM chats WHERE id = ch
ChatExists(ch) == \E c \in chats : c.id = ch

IsParticipant_Always(ch, u) == TRUE

\* SELECT id FROM chat_participants WHERE chat_id = ch AND user_id = u
IsParticipant(ch, u) == <<ch, u>> \in chatParticipants

\* SELECT user_id FROM chat_participants WHERE chat_id = ch
ParticipantsOf(ch) == {u \in Users : <<ch, u>> \in chatParticipants}

\* ---------------------------------------------------------------- registry reads
isUserOnline(u) == MapHas(connectedUsers, u)

getUserSocketId(u) ==
  IF MapHas(connectedUsers, u)
    THEN (CHOOSE e \in connectedUsers : e.userId = u).socketId
    ELSE None

\* ---------------------------------------------------------------- handshake
\* result of SELECT ... FROM users WHERE id = decoded.userId
LookupResult(token, dbFails) ==
  IF token.kind # "valid" THEN "not_run"
  ELSE IF dbFails THEN "error"
  ELSE IF token.userId \in Users THEN "rows"
  ELSE "no_rows"

Authenticate_NoUserCheck(token, lookup) ==
  IF token.kind = "none" THEN "Authentication error: No token provided"
  ELSE IF token.kind \in {"invalid", "expired"} THEN "Authentication error: Invalid token"
  ELSE IF lookup = "error" THEN "Authentication error: Invalid token"
  ELSE ""

\* io.use middleware: the Error handed to next(), "" when next() gets none
Authenticate(token, lookup) ==
  IF token.kind = "none" THEN "Authentication error: No token provided"
  ELSE IF token.kind \in {"invalid", "expired"} THEN "Authentication error: Invalid token"
  ELSE IF lookup = "error" THEN "Authentication error: Invalid token"
  ELSE IF lookup = "no_rows" THEN "Authentication error: User not found"
  ELSE ""

\* ---------------------------------------------------------------- refresh tokens
\* what a client can put into the refreshToken field: nothing, a string that
\* jwt.verify or the type check rejects, or a signed refresh token
NoJwt == [kind |-> "empty", userId |-> None, iat |-> 0]
OtherJwt == [kind |-> "other", userId |-> None, iat |-> 0]

\* generateTokens: the refresh token is jwt.sign({userId, type}, secret,
\* {expiresIn}); the string is determined by userId and the second it is
\* signed in (iat; exp = iat + 30d)
generateTokens(u, now) == [kind |-> "refresh", userId |-> u, iat |-> now]

RefreshTokens == {generateTokens(u, t) : u \in Users, t \in Clock}
PresentedTokens == RefreshTokens \cup {NoJwt, OtherJwt}

\* after: the token had already been redeemed when the request arrived
NoRefresh == [pc |-> "idle", token |-> NoJwt, newToken |-> NoJwt,
              status |-> 0, after |-> FALSE]

\* ---------------------------------------------------------------- PUT / DELETE request
\* a message id that has no row in the messages table
GhostMsg == NumMsgs + 1
NoModify == [pc |-> "idle", op |-> "put", userId |-> None, msgId |-> None,
             status |-> 0]

\* ---------------------------------------------------------------- initial state
\* an updateUserStatus call: st is "idle" | "pending" | "settled"; while the
\* call is pending, changed records whether the handler that issued it changed
\* the registry membership of the user
Call(st, changed) == [st |-> st, changed |-> changed]
IdleCalls == [online |-> Call("idle", FALSE), offline |-> Call("idle", FALSE)]
\* audience: the sockets of the other participants that were open when the
\* message row was inserted
\* variant: "plain" is routes/messages.js, "autoCreate" the route that creates
\* a missing chat; named: req.params.chatId; chatId: the chat the handler works
\* on; found / member: what the chat check and the participant check saw
NoPost == [pc |-> "idle", variant |-> "plain", userId |-> None,
           named |-> None, chatId |-> None, recipientId |-> None,
           found |-> "unknown", member |-> "unknown", msgId |-> None,
           status |-> 0, audience |-> {}]

Init ==
  /\ nextConn = 1
  /\ connState = [c \in Conns |-> "new"]
  /\ handshake = [c \in Conns |-> NoHandshake]
  /\ authError = [c \in Conns |-> ""]
  /\ socketUser = [c \in Conns |-> None]
  /\ connectedUsers = {}
  /\ rooms = [c \in Conns |-> {}]
  /\ statusCall = [c \in Conns |-> IdleCalls]
  /\ dbOnline = [u \in Users |-> FALSE]
  /\ readCalls = {}
  /\ messages = {}
  /\ readMsgs = {}
  /\ post = NoPost
  /\ emitted = {}
  /\ newMessageSeen = {}
  /\ processUp = TRUE
  /\ chats = {[id |-> ch, isGroup |-> TRUE] : ch \in Chats}
  /\ chatParticipants = {p \in Chats \X Users : p[2] \in Participants(p[1])}
  /\ clock = 0
  /\ sessions = {}
  /\ refresh = [r \in Reqs |-> NoRefresh]
  /\ redeemed = {}
  /\ edited = {}
  /\ modify = NoModify
  /\ nextMsg = 1

gatewayVars == <<nextConn, connState, handshake, authError, socketUser,
                 connectedUsers, rooms, statusCall>>
presenceVars == <<dbOnline>>
tableVars == <<chats, chatParticipants>>
authVars == <<clock, sessions, refresh, redeemed>>
editVars == <<edited, modify, nextMsg>>
messageVars == <<messages, post, newMessageSeen, tableVars>>

\* a handler runs only in a live process and, unless it throws, leaves it alive
Running == processUp /\ UNCHANGED processUp

\* ---------------------------------------------------------------- connect
\* The handshake middleware rejects the socket: next(new Error(...)).
ConnectRejected(token, dbFails) ==
  LET c == nextConn
      lookup == LookupResult(token, dbFails)
      err == Authenticate(token, lookup)
  IN /\ Running
     /\ UNCHANGED editVars
     /\ UNCHANGED authVars
     /\ c \in Conns
     /\ dbFails => token.kind = "valid"
     /\ err # ""
     /\ nextConn' = c + 1
     /\ connState' = [connState EXCEPT ![c] = "rejected"]
     /\ handshake' = [handshake EXCEPT ![c] = [token |-> token, lookup |-> lookup]]
     /\ authError' = [authError EXCEPT ![c] = err]
     /\ emitted' = {}
     /\ UNCHANGED <<socketUser, connectedUsers, rooms, statusCall, readCalls,
                    readMsgs>>
     /\ UNCHANGED presenceVars
     /\ UNCHANGED messageVars

\* The handshake middleware calls next() and the 'connection' handler runs.
ConnectAdmitted(token, dbFails) ==
  LET c == nextConn
      lookup == LookupResult(token, dbFails)
      err == Authenticate(token, lookup)
      u == token.userId
  IN /\ Running
     /\ UNCHANGED editVars
     /\ UNCHANGED authVars
     /\ c \in Conns
     /\ dbFails => token.kind = "valid"
     /\ err = ""
     /\ nextConn' = c + 1
     /\ connState' = [connState EXCEPT ![c] = "open"]
     /\ handshake' = [handshake EXCEPT ![c] = [token |-> token, lookup |-> lookup]]
     /\ socketUser' = [socketUser EXCEPT ![c] = u]
     /\ connectedUsers' = MapSet(connectedUsers, u, c)
     /\ statusCall' = [statusCall EXCEPT ![c].online =
                         Call("pending", ~MapHas(connectedUsers, u))]
     /\ rooms' = socketJoin(rooms, c, UserRoom(u))
     /\ emitted' = {}
     /\ UNCHANGED <<authError, readCalls, readMsgs>>
     /\ UNCHANGED presenceVars
     /\ UNCHANGED messageVars

\* ---------------------------------------------------------------- disconnect
\* The transport closes the socket: socket.io takes it out of every room, then
\* the 'disconnect' handler runs.
Disconnect(c) ==
  LET u == socketUser[c]
  IN /\ Running
     /\ UNCHANGED editVars
     /\ UNCHANGED authVars
     /\ connState[c] = "open"
     /\ connState' = [connState EXCEPT ![c] = "closed"]
     /\ rooms' = leaveAll(rooms, c)
     /\ connectedUsers' = MapDelete(connectedUsers, u)
     /\ statusCall' = [statusCall EXCEPT ![c].offline =
                         Call("pending", MapHas(connectedUsers, u))]
     /\ emitted' = {}
     /\ UNCHANGED <<nextConn, handshake, authError, socketUser, readCalls,
                    readMsgs>>
     /\ UNCHANGED presenceVars
     /\ UNCHANGED messageVars

\* ---------------------------------------------------------------- updateUserStatus
\* The UPDATE users query of an updateUserStatus call settles; on success the
\* code after the await broadcasts, on failure the catch only logs.
updateUserStatus(c, isOnline, ok) ==
  LET u == socketUser[c]
      call == IF isOnline THEN statusCall[c].online ELSE statusCall[c].offline
      settled == Call("settled", FALSE)
  IN /\ Running
     /\ UNCHANGED editVars
     /\ UNCHANGED authVars
     /\ call.st = "pending"
     /\ statusCall' =
          IF isOnline THEN [statusCall EXCEPT ![c].online = settled]
          ELSE [statusCall EXCEPT ![c].offline = settled]
     /\ IF ok
          THEN /\ dbOnline' = [dbOnline EXCEPT ![u] = isOnline]
               /\ emitted' = {Event("user_status_changed", None, IoEmit, u,
                                    isOnline, None, None)}
          ELSE /\ emitted' = {}
               /\ UNCHANGED presenceVars
     /\ UNCHANGED <<nextConn, connState, handshake, authError, socketUser,
                    connectedUsers, rooms, readCalls, readMsgs>>
     /\ UNCHANGED messageVars

\* ---------------------------------------------------------------- rooms
JoinChat(c, ch) ==
  /\ Running
  /\ UNCHANGED editVars
  /\ UNCHANGED authVars
  /\ connState[c] = "open"
  /\ rooms' = socketJoin(rooms, c, ChatRoom(ch))
  /\ emitted' = {}
  /\ UNCHANGED <<nextConn, connState, handshake, authError, socketUser,
                 connectedUsers, statusCall, readCalls, readMsgs>>
  /\ UNCHANGED presenceVars
  /\ UNCHANGED messageVars

LeaveChat(c, ch) ==
  /\ Running
  /\ UNCHANGED editVars
  /\ UNCHANGED authVars
  /\ connState[c] = "open"
  /\ rooms' = socketLeave(rooms, c, ChatRoom(ch))
  /\ emitted' = {}
  /\ UNCHANGED <<nextConn, connState, handshake, authError, socketUser,
                 connectedUsers, statusCall, readCalls, readMsgs>>
  /\ UNCHANGED presenceVars
  /\ UNCHANGED messageVars

\* ---------------------------------------------------------------- relayed identity
\* user ids a client may write into the payload of an event
ClaimedUserIds == Users \cup {None}

RelayUserId_FromPayload(c, claimed) == claimed

\* the userId field of a relayed event: socket.userId, whatever the payload says
RelayUserId(c, claimed) == socketUser[c]

\* ---------------------------------------------------------------- typing
Typing(c, ch, name) ==
  /\ Running
  /\ UNCHANGED editVars
  /\ UNCHANGED authVars
  /\ connState[c] = "open"
  /\ \E claimed \in ClaimedUserIds :
       emitted' = {Event(name, c, SocketTo(c, ChatRoom(ch)),
                         RelayUserId(c, claimed), FALSE, ch, None)}
  /\ UNCHANGED gatewayVars
  /\ UNCHANGED <<readCalls, readMsgs>>
  /\ UNCHANGED presenceVars
  /\ UNCHANGED messageVars

TypingStart(c, ch) == Typing(c, ch, "typing_started")

TypingStop(c, ch) == Typing(c, ch, "typing_stopped")

\* ---------------------------------------------------------------- message_read
MessageRead_RelaysFirst(c, ch, mid) ==
  LET call == [from |-> c, chatId |-> ch, messageId |-> mid]
  IN /\ Running
     /\ UNCHANGED editVars
     /\ UNCHANGED authVars
     /\ connState[c] = "open"
     /\ call \notin readCalls
     /\ Cardinality(readCalls) < MaxReads
     /\ readCalls' = readCalls \cup {call}
     /\ emitted' = {Event("message_read", c, SocketTo(c, ChatRoom(ch)),
                          socketUser[c], FALSE, ch, mid)}
     /\ UNCHANGED gatewayVars
     /\ UNCHANGED readMsgs
     /\ UNCHANGED presenceVars
     /\ UNCHANGED messageVars

\* 'message_read' handler up to its await: the UPDATE messages query is issued.
MessageRead(c, ch, mid) ==
  LET call == [from |-> c, chatId |-> ch, messageId |-> mid]
  IN /\ Running
     /\ UNCHANGED editVars
     /\ UNCHANGED authVars
     /\ connState[c] = "open"
     /\ call \notin readCalls
     /\ Cardinality(readCalls) < MaxReads
     /\ readCalls' = readCalls \cup {call}
     /\ emitted' = {}
     /\ UNCHANGED gatewayVars
     /\ UNCHANGED readMsgs
     /\ UNCHANGED presenceVars
     /\ UNCHANGED messageVars

\* The UPDATE messages query settles; on success the handler relays to the
\* room, on failure the catch only logs.
MessageReadSettled(call, ok) ==
  LET c == call.from
  IN /\ Running
     /\ UNCHANGED editVars
     /\ UNCHANGED authVars
     /\ call \in readCalls
     /\ readCalls' = readCalls \ {call}
     /\ IF ok
          THEN /\ readMsgs' =
                    IF \E m \in messages :
                         m.id = call.messageId /\ m.chatId = call.chatId
                      THEN readMsgs \cup {call.messageId}
                      ELSE readMsgs
               /\ \E claimed \in ClaimedUserIds :
                    emitted' = {Event("message_read", c,
                                      SocketTo(c, ChatRoom(call.chatId)),
                                      RelayUserId(c, claimed), FALSE,
                                      call.chatId, call.messageId)}
          ELSE /\ emitted' = {}
               /\ UNCHANGED readMsgs
     /\ UNCHANGED gatewayVars
     /\ UNCHANGED presenceVars
     /\ UNCHANGED messageVars

\* ---------------------------------------------------------------- exported senders
sendMessageToChat_IncludesSender(ch, mid, senderId, ok) ==
  LET targets == ParticipantsOf(ch)
      newMessage == {Event("new_message", None, IoTo(UserRoom(u)), u, FALSE,
                           ch, mid) : u \in targets}
      delivered == Event("message_delivered", None, IoTo(ChatRoom(ch)),
                         senderId, FALSE, ch, mid)
  IN /\ Running
     /\ UNCHANGED editVars
     /\ UNCHANGED authVars
     /\ \E m \in messages : m.id = mid
     /\ IF ok
          THEN /\ emitted' = newMessage \cup {delivered}
               /\ newMessageSeen' = newMessageSeen \cup
                    {<<c, mid>> : c \in UNION {e.to : e \in newMessage}}
          ELSE /\ emitted' = {}
               /\ UNCHANGED newMessageSeen
     /\ UNCHANGED gatewayVars
     /\ UNCHANGED <<readCalls, readMsgs, messages, post>>
     /\ UNCHANGED presenceVars
     /\ UNCHANGED tableVars

\* sendMessageToChat: the participants query settles; on success one
\* new_message per participant other than senderId, then message_delivered
\* to the chat room; on failure the catch only logs.
\* The record of message_delivered keeps the senderId argument of the call.
sendMessageToChat(ch, mid, senderId, ok) ==
  LET targets == {u \in ParticipantsOf(ch) : u # senderId}
      newMessage == {Event("new_message", None, IoTo(UserRoom(u)), u, FALSE,
                           ch, mid) : u \in targets}
      delivered == Event("message_delivered", None, IoTo(ChatRoom(ch)),
                         senderId, FALSE, ch, mid)
  IN /\ Running
     /\ UNCHANGED editVars
     /\ UNCHANGED authVars
     /\ \E m \in messages : m.id = mid
     /\ IF ok
          THEN /\ emitted' = newMessage \cup {delivered}
               /\ newMessageSeen' = newMessageSeen \cup
                    {<<c, mid>> : c \in UNION {e.to : e \in newMessage}}
          ELSE /\ emitted' = {}
               /\ UNCHANGED newMessageSeen
     /\ UNCHANGED gatewayVars
     /\ UNCHANGED <<readCalls, readMsgs, messages, post>>
     /\ UNCHANGED presenceVars
     /\ UNCHANGED tableVars

sendNotificationToUser(u) ==
  /\ Running
  /\ UNCHANGED editVars
  /\ UNCHANGED authVars
  /\ emitted' = {Event("notification", None, IoTo(UserRoom(u)), u, FALSE,
                       None, None)}
  /\ UNCHANGED gatewayVars
  /\ UNCHANGED <<readCalls, readMsgs>>
  /\ UNCHANGED presenceVars
  /\ UNCHANGED messageVars

\* ---------------------------------------------------------------- POST /messages/:chatId
Respond(status) == [post EXCEPT !.pc = "done", !.status = status]

httpVars == <<readCalls, readMsgs, newMessageSeen>>

\* the request as the handler sees it once the validators have run
NewPost(variant, u, ch, r, contentOk) ==
  [NoPost EXCEPT !.pc = IF contentOk THEN "chatCheck" ELSE "done",
                 !.status = IF contentOk THEN 0 ELSE 400,
                 !.variant = variant, !.userId = u, !.named = ch,
                 !.chatId = ch, !.recipientId = r]

\* The request arrives from an authenticated user; the validators run.
PostStart(u, ch, contentOk) ==
  /\ Running
  /\ UNCHANGED editVars
  /\ UNCHANGED authVars
  /\ post.pc \in {"idle", "done"}
  /\ nextMsg <= NumMsgs
  /\ post' = NewPost("plain", u, ch, None, contentOk)
  /\ emitted' = {}
  /\ UNCHANGED gatewayVars
  /\ UNCHANGED httpVars
  /\ UNCHANGED presenceVars
  /\ UNCHANGED messages
  /\ UNCHANGED tableVars

\* The same request at the route that creates a missing chat; the body may
\* carry a recipientId.
PostStartAutoCreate(u, ch, r, contentOk) ==
  /\ Running
  /\ UNCHANGED editVars
  /\ UNCHANGED authVars
  /\ post.pc \in {"idle", "done"}
  /\ nextMsg <= NumMsgs
  /\ Cardinality(chats) < NumChats + MaxNewChats
  /\ post' = NewPost("autoCreate", u, ch, r, contentOk)
  /\ emitted' = {}
  /\ UNCHANGED gatewayVars
  /\ UNCHANGED httpVars
  /\ UNCHANGED presenceVars
  /\ UNCHANGED messages
  /\ UNCHANGED tableVars

\* SELECT id FROM chats settles.
PostChatCheck(ok) ==
  LET found == ChatExists(post.chatId)
      seen == [post EXCEPT !.found = IF found THEN "yes" ELSE "no"]
  IN /\ Running
     /\ UNCHANGED editVars
     /\ UNCHANGED authVars
     /\ post.pc = "chatCheck"
     /\ post' = IF ~ok THEN Respond(500)
                ELSE IF found THEN [seen EXCEPT !.pc = "participantCheck"]
                ELSE IF post.variant = "autoCreate" /\ post.recipientId # None
                  THEN [seen EXCEPT !.pc = "recipientCheck"]
                ELSE [seen EXCEPT !.pc = "done", !.status = 404]
     /\ emitted' = {}
     /\ UNCHANGED gatewayVars
     /\ UNCHANGED httpVars
     /\ UNCHANGED presenceVars
     /\ UNCHANGED messages
     /\ UNCHANGED tableVars

\* SELECT id FROM users WHERE id = recipientId settles.
PostRecipientCheck(ok) ==
  /\ Running
  /\ UNCHANGED editVars
  /\ UNCHANGED authVars
  /\ post.pc = "recipientCheck"
  /\ post' = IF ~ok THEN Respond(500)
             ELSE IF post.recipientId \notin Users THEN Respond(404)
             ELSE [post EXCEPT !.pc = "existingChat"]
  /\ emitted' = {}
  /\ UNCHANGED gatewayVars
  /\ UNCHANGED httpVars
  /\ UNCHANGED presenceVars
  /\ UNCHANGED messages
  /\ UNCHANGED tableVars

\* the private chats in which u and r are two different participants
PrivateChatsOf(u, r) ==
  {c.id : c \in {x \in chats : /\ ~x.isGroup
                               /\ IsParticipant(x.id, u)
                               /\ IsParticipant(x.id, r)
                               /\ u # r}}

\* The query for an existing private chat of sender and recipient settles.
PostExistingChat(ok) ==
  LET existing == PrivateChatsOf(post.userId, post.recipientId)
  IN /\ Running
     /\ UNCHANGED editVars
     /\ UNCHANGED authVars
     /\ post.pc = "existingChat"
     /\ IF ~ok THEN post' = Respond(500)
        ELSE IF existing # {}
          THEN \E ch \in existing :
                 post' = [post EXCEPT !.pc = "participantCheck", !.chatId = ch]
        ELSE post' = [post EXCEPT !.pc = "createChat"]
     /\ emitted' = {}
     /\ UNCHANGED gatewayVars
     /\ UNCHANGED httpVars
     /\ UNCHANGED presenceVars
     /\ UNCHANGED messages
     /\ UNCHANGED tableVars

\* INSERT INTO chats (newChatId, 'private', false, 2) settles.
PostCreateChat(ok) ==
  LET newChatId == Cardinality(chats) + 2
  IN /\ Running
     /\ UNCHANGED editVars
     /\ UNCHANGED authVars
     /\ post.pc = "createChat"
     /\ IF ok
          THEN /\ chats' = chats \cup {[id |-> newChatId, isGroup |-> FALSE]}
               /\ post' = [post EXCEPT !.pc = "addParticipants",
                                        !.chatId = newChatId]
          ELSE /\ post' = Respond(500)
               /\ UNCHANGED chats
     /\ emitted' = {}
     /\ UNCHANGED gatewayVars
     /\ UNCHANGED httpVars
     /\ UNCHANGED presenceVars
     /\ UNCHANGED <<messages, chatParticipants>>

\* INSERT INTO chat_participants (sender and recipient) settles; the two rows
\* are the same row when the recipient is the sender, and UNIQUE(chat_id,
\* user_id) rejects the statement.
PostAddParticipants(ok) ==
  /\ Running
  /\ UNCHANGED editVars
  /\ UNCHANGED authVars
  /\ post.pc = "addParticipants"
  /\ ok => post.recipientId # post.userId
  /\ IF ok
       THEN /\ chatParticipants' = chatParticipants \cup
                 {<<post.chatId, post.userId>>, <<post.chatId, post.recipientId>>}
            /\ post' = [post EXCEPT !.pc = "participantCheck"]
       ELSE /\ post' = Respond(500)
            /\ UNCHANGED chatParticipants
  /\ emitted' = {}
  /\ UNCHANGED gatewayVars
  /\ UNCHANGED httpVars
  /\ UNCHANGED presenceVars
  /\ UNCHANGED <<messages, chats>>

\* SELECT id FROM chat_participants settles.
PostParticipantCheck(ok) ==
  LET member == IsParticipant(post.chatId, post.userId)
      seen == [post EXCEPT !.member = IF member THEN "yes" ELSE "no"]
  IN /\ Running
     /\ UNCHANGED editVars
     /\ UNCHANGED authVars
     /\ post.pc = "participantCheck"
     /\ post' = IF ~ok THEN Respond(500)
                ELSE IF ~member THEN [seen EXCEPT !.pc = "done", !.status = 403]
                ELSE [seen EXCEPT !.pc = "insert"]
     /\ emitted' = {}
     /\ UNCHANGED gatewayVars
     /\ UNCHANGED httpVars
     /\ UNCHANGED presenceVars
     /\ UNCHANGED messages
     /\ UNCHANGED tableVars

\* INSERT INTO messages ... RETURNING settles.
PostInsert(ok) ==
  LET mid == nextMsg
  IN /\ Running
     /\ UNCHANGED <<edited, modify>>
     /\ UNCHANGED authVars
     /\ post.pc = "insert"
     /\ nextMsg' = IF ok THEN nextMsg + 1 ELSE nextMsg
     /\ IF ok
          THEN /\ messages' = messages \cup
                    {[id |-> mid, chatId |-> post.chatId,
                      senderId |-> post.userId]}
               /\ post' = [post EXCEPT !.pc = "senderInfo", !.msgId = mid,
                                        !.audience =
                    {c \in Conns : /\ connState[c] = "open"
                                   /\ socketUser[c] \in ParticipantsOf(post.chatId)
                                   /\ socketUser[c] # post.userId}]
          ELSE /\ post' = Respond(500)
               /\ UNCHANGED messages
     /\ emitted' = {}
     /\ UNCHANGED gatewayVars
     /\ UNCHANGED httpVars
     /\ UNCHANGED presenceVars
     /\ UNCHANGED tableVars

\* SELECT ... FROM users (sender info) settles; routes/messages.js then sends
\* the response, the auto-create route first updates the chat row.
PostSenderInfo(ok) ==
  /\ Running
  /\ UNCHANGED editVars
  /\ UNCHANGED authVars
  /\ post.pc = "senderInfo"
  /\ post' = IF ~ok THEN Respond(500)
             ELSE IF post.variant = "autoCreate"
               THEN [post EXCEPT !.pc = "chatUpdate"]
             ELSE Respond(201)
  /\ emitted' = {}
  /\ UNCHANGED gatewayVars
  /\ UNCHANGED httpVars
  /\ UNCHANGED presenceVars
  /\ UNCHANGED messages
  /\ UNCHANGED tableVars

\* UPDATE chats SET last_message_... settles and the response is sent.
PostChatUpdate(ok) ==
  /\ Running
  /\ UNCHANGED editVars
  /\ UNCHANGED authVars
  /\ post.pc = "chatUpdate"
  /\ post' = IF ok THEN Respond(201) ELSE Respond(500)
  /\ emitted' = {}
  /\ UNCHANGED gatewayVars
  /\ UNCHANGED httpVars
  /\ UNCHANGED presenceVars
  /\ UNCHANGED messages
  /\ UNCHANGED tableVars

\* ---------------------------------------------------------------- specification
\* The gateway: sockets, registry, rooms, presence, relays, notifications.
Next ==
  \/ \E t \in Tokens, f \in BOOLEAN : ConnectRejected(t, f)
  \/ \E t \in Tokens, f \in BOOLEAN : ConnectAdmitted(t, f)
  \/ \E c \in Conns : Disconnect(c)
  \/ \E c \in Conns, on \in BOOLEAN, ok \in BOOLEAN : updateUserStatus(c, on, ok)
  \/ \E c \in Conns, ch \in Chats : JoinChat(c, ch)
  \/ \E c \in Conns, ch \in Chats : LeaveChat(c, ch)
  \/ \E c \in Conns, ch \in Chats : TypingStart(c, ch)
  \/ \E c \in Conns, ch \in Chats : TypingStop(c, ch)
  \/ \E c \in Conns, ch \in Chats, m \in Msgs : MessageRead(c, ch, m)
  \/ \E call \in readCalls, ok \in BOOLEAN : MessageReadSettled(call, ok)
  \/ \E u \in Users \cup {GhostUser} : sendNotificationToUser(u)

Spec == Init /\ [][Next]_vars

\* The message route next to the gateway: sockets connect and disconnect,
\* messages are posted, sendMessageToChat is called for stored messages.
NextMessages ==
  \/ \E t \in Tokens : ConnectAdmitted(t, FALSE)
  \/ \E c \in Conns : Disconnect(c)
  \/ \E c \in Conns, on \in BOOLEAN, ok \in BOOLEAN : updateUserStatus(c, on, ok)
  \/ \E ch \in Chats, m \in Msgs, u \in Users, ok \in BOOLEAN :
       sendMessageToChat(ch, m, u, ok)
  \/ \E u \in Users \cup {GhostUser} : sendNotificationToUser(u)
  \/ \E u \in Users, ch \in Chats \cup {GhostChat}, v \in BOOLEAN :
       PostStart(u, ch, v)
  \/ \E ok \in BOOLEAN : PostChatCheck(ok)
  \/ \E ok \in BOOLEAN : PostParticipantCheck(ok)
  \/ \E ok \in BOOLEAN : PostInsert(ok)
  \/ \E ok \in BOOLEAN : PostSenderInfo(ok)

SpecMessages == Init /\ [][NextMessages]_vars

\* The two send routes on their own: requests of either variant, one at a
\* time, against the chats, chat_participants and messages tables.
NextSend ==
  \/ \E u \in Users, ch \in Chats \cup {GhostChat}, v \in BOOLEAN :
       PostStart(u, ch, v)
  \/ \E u \in Users, ch \in Chats \cup {GhostChat},
        r \in Users \cup {GhostUser, None}, v \in BOOLEAN :
       PostStartAutoCreate(u, ch, r, v)
  \/ \E ok \in BOOLEAN : PostChatCheck(ok)
  \/ \E ok \in BOOLEAN : PostRecipientCheck(ok)
  \/ \E ok \in BOOLEAN : PostExistingChat(ok)
  \/ \E ok \in BOOLEAN : PostCreateChat(ok)
  \/ \E ok \in BOOLEAN : PostAddParticipants(ok)
  \/ \E ok \in BOOLEAN : PostParticipantCheck(ok)
  \/ \E ok \in BOOLEAN : PostInsert(ok)
  \/ \E ok \in BOOLEAN : PostSenderInfo(ok)
  \/ \E ok \in BOOLEAN : PostChatUpdate(ok)

SpecSend == Init /\ [][NextSend]_vars

\* ---------------------------------------------------------------- POST /auth/refresh
Tick_EvictsSockets ==
  /\ Running
  /\ UNCHANGED editVars
  /\ clock < MaxClock
  /\ clock' = clock + 1
  /\ connState' = [c \in Conns |->
                     IF connState[c] = "open" THEN "closed" ELSE connState[c]]
  /\ rooms' = [c \in Conns |-> {}]
  /\ emitted' = {}
  /\ UNCHANGED <<sessions, refresh, redeemed>>
  /\ UNCHANGED <<nextConn, handshake, authError, socketUser, connectedUsers,
                 statusCall>>
  /\ UNCHANGED <<readCalls, readMsgs>>
  /\ UNCHANGED presenceVars
  /\ UNCHANGED messageVars

\* A second of wall-clock time passes; tokens presented earlier may expire
\* with it.  No code of the gateway runs.
Tick ==
  /\ Running
  /\ UNCHANGED editVars
  /\ clock < MaxClock
  /\ clock' = clock + 1
  /\ emitted' = {}
  /\ UNCHANGED <<sessions, refresh, redeemed>>
  /\ UNCHANGED gatewayVars
  /\ UNCHANGED <<readCalls, readMsgs>>
  /\ UNCHANGED presenceVars
  /\ UNCHANGED messageVars

\* POST /auth/login of user u succeeds: the user row is marked online, tokens
\* are generated and the refresh token is saved.
Login(u) ==
  /\ Running
  /\ UNCHANGED editVars
  /\ dbOnline' = [dbOnline EXCEPT ![u] = TRUE]
  /\ sessions' = sessions \cup {generateTokens(u, clock)}
  /\ emitted' = {}
  /\ UNCHANGED <<clock, refresh, redeemed>>
  /\ UNCHANGED gatewayVars
  /\ UNCHANGED <<readCalls, readMsgs>>
  /\ UNCHANGED messageVars

RefreshDone(r, status) == [refresh EXCEPT ![r].pc = "done", ![r].status = status]

\* The request arrives; the validator runs, then verifyRefreshToken up to its
\* query: jwt.verify and the type check.
RefreshStart(r, tok) ==
  LET req == [NoRefresh EXCEPT !.token = tok, !.after = tok \in redeemed]
  IN /\ Running
     /\ UNCHANGED editVars
     /\ refresh[r].pc \in {"idle", "done"}
     /\ refresh' = [refresh EXCEPT ![r] =
          IF tok.kind = "empty" THEN [req EXCEPT !.pc = "done", !.status = 400]
          ELSE IF tok.kind # "refresh" THEN [req EXCEPT !.pc = "done", !.status = 401]
          ELSE [req EXCEPT !.pc = "verify"]]
     /\ emitted' = {}
     /\ UNCHANGED <<clock, sessions, redeemed>>
     /\ UNCHANGED gatewayVars
     /\ UNCHANGED <<readCalls, readMsgs>>
     /\ UNCHANGED presenceVars
     /\ UNCHANGED messageVars

\* SELECT user_id FROM user_sessions WHERE refresh_token = ? settles; with a
\* row the handler goes on to generateTokens and issues the DELETE.
RefreshVerify(r, ok) ==
  LET req == refresh[r]
  IN /\ Running
     /\ UNCHANGED editVars
     /\ req.pc = "verify"
     /\ refresh' =
          IF ok /\ req.token \in sessions
            THEN [refresh EXCEPT ![r].pc = "revoke",
                                 ![r].newToken =
                                    generateTokens(req.token.userId, clock)]
            ELSE RefreshDone(r, 401)
     /\ emitted' = {}
     /\ UNCHANGED <<clock, sessions, redeemed>>
     /\ UNCHANGED gatewayVars
     /\ UNCHANGED <<readCalls, readMsgs>>
     /\ UNCHANGED presenceVars
     /\ UNCHANGED messageVars

\* revokeRefreshToken: DELETE FROM user_sessions WHERE refresh_token = ? settles.
RefreshRevoke(r, ok) ==
  LET req == refresh[r]
  IN /\ Running
     /\ UNCHANGED editVars
     /\ req.pc = "revoke"
     /\ IF ok
          THEN /\ sessions' = sessions \ {req.token}
               /\ refresh' = [refresh EXCEPT ![r].pc = "save"]
          ELSE /\ refresh' = [RefreshDone(r, 401) EXCEPT ![r].newToken = NoJwt]
               /\ UNCHANGED sessions
     /\ emitted' = {}
     /\ UNCHANGED <<clock, redeemed>>
     /\ UNCHANGED gatewayVars
     /\ UNCHANGED <<readCalls, readMsgs>>
     /\ UNCHANGED presenceVars
     /\ UNCHANGED messageVars

\* saveRefreshToken: INSERT INTO user_sessions settles and the response with
\* the new tokens is sent.
RefreshSave(r, ok) ==
  LET req == refresh[r]
  IN /\ Running
     /\ UNCHANGED editVars
     /\ req.pc = "save"
     /\ IF ok
          THEN /\ sessions' = sessions \cup {req.newToken}
               /\ refresh' = RefreshDone(r, 200)
               /\ redeemed' = redeemed \cup {req.token}
          ELSE /\ refresh' = [RefreshDone(r, 401) EXCEPT ![r].newToken = NoJwt]
               /\ UNCHANGED <<sessions, redeemed>>
     /\ emitted' = {}
     /\ UNCHANGED clock
     /\ UNCHANGED gatewayVars
     /\ UNCHANGED <<readCalls, readMsgs>>
     /\ UNCHANGED presenceVars
     /\ UNCHANGED messageVars

\* Logins and refresh requests while time passes.
NextRefresh ==
  \/ Tick
  \/ \E u \in Users : Login(u)
  \/ \E r \in Reqs, tok \in PresentedTokens : RefreshStart(r, tok)
  \/ \E r \in Reqs, ok \in BOOLEAN : RefreshVerify(r, ok)
  \/ \E r \in Reqs, ok \in BOOLEAN : RefreshRevoke(r, ok)
  \/ \E r \in Reqs, ok \in BOOLEAN : RefreshSave(r, ok)

SpecRefresh == Init /\ [][NextRefresh]_vars

\* ---------------------------------------------------------------- PUT / DELETE /messages/:messageId
ModifyDone(status) == [modify EXCEPT !.pc = "done", !.status = status]

IsSender_Anyone(m, u) == TRUE

\* messageCheck.rows[0].sender_id === req.user.id
IsSender(m, u) == m.senderId = u

\* The request arrives from an authenticated user; PUT runs its validators.
ModifyStart(u, mid, op, contentOk) ==
  /\ Running
  /\ UNCHANGED authVars
  /\ UNCHANGED nextMsg
  /\ modify.pc \in {"idle", "done"}
  /\ op = "delete" => contentOk
  /\ modify' = [pc |-> IF contentOk THEN "check" ELSE "done", op |-> op,
                userId |-> u, msgId |-> mid,
                status |-> IF contentOk THEN 0 ELSE 400]
  /\ emitted' = {}
  /\ UNCHANGED edited
  /\ UNCHANGED gatewayVars
  /\ UNCHANGED <<readCalls, readMsgs>>
  /\ UNCHANGED presenceVars
  /\ UNCHANGED messageVars

\* SELECT id, sender_id FROM messages WHERE id = $1 settles.
ModifyCheck(ok) ==
  LET rows == {m \in messages : m.id = modify.msgId}
  IN /\ Running
     /\ UNCHANGED authVars
     /\ UNCHANGED nextMsg
     /\ modify.pc = "check"
     /\ modify' = IF ~ok THEN ModifyDone(500)
                  ELSE IF rows = {} THEN ModifyDone(404)
                  ELSE IF \E m \in rows : ~IsSender(m, modify.userId)
                    THEN ModifyDone(403)
                  ELSE [modify EXCEPT !.pc = "write"]
     /\ emitted' = {}
     /\ UNCHANGED edited
     /\ UNCHANGED gatewayVars
     /\ UNCHANGED <<readCalls, readMsgs>>
     /\ UNCHANGED presenceVars
     /\ UNCHANGED messageVars

\* UPDATE messages SET content ... / DELETE FROM messages settles and the
\* response is sent.
ModifyWrite(ok) ==
  LET rows == {m \in messages : m.id = modify.msgId}
  IN /\ Running
     /\ UNCHANGED authVars
     /\ UNCHANGED nextMsg
     /\ modify.pc = "write"
     /\ IF ~ok
          THEN /\ modify' = ModifyDone(500)
               /\ UNCHANGED <<edited, messages>>
          ELSE /\ modify' = ModifyDone(200)
               /\ IF modify.op = "put"
                    THEN /\ edited' = IF rows = {} THEN edited
                                      ELSE edited \cup {modify.msgId}
                         /\ UNCHANGED messages
                    ELSE /\ messages' = messages \ rows
                         /\ edited' = edited \ {modify.msgId}
     /\ emitted' = {}
     /\ UNCHANGED gatewayVars
     /\ UNCHANGED <<readCalls, readMsgs>>
     /\ UNCHANGED presenceVars
     /\ UNCHANGED <<post, newMessageSeen, tableVars>>

\* Messages are posted, edited and deleted over HTTP.
NextEdit ==
  \/ \E u \in Users, ch \in Chats \cup {GhostChat}, v \in BOOLEAN :
       PostStart(u, ch, v)
  \/ \E ok \in BOOLEAN : PostChatCheck(ok)
  \/ \E ok \in BOOLEAN : PostParticipantCheck(ok)
  \/ \E ok \in BOOLEAN : PostInsert(ok)
  \/ \E ok \in BOOLEAN : PostSenderInfo(ok)
  \/ \E u \in Users, mid \in Msgs \cup {GhostMsg}, op \in {"put", "delete"},
        v \in BOOLEAN : ModifyStart(u, mid, op, v)
  \/ \E ok \in BOOLEAN : ModifyCheck(ok)
  \/ \E ok \in BOOLEAN : ModifyWrite(ok)

SpecEdit == Init /\ [][NextEdit]_vars

\* ---------------------------------------------------------------- payloads
\* the events a client can send to the gateway
ClientEvents == {"typing_start", "typing_stop", "message_read", "join_chat",
                 "leave_chat"}
\* chatId of a payload: a chat id, or undefined when the payload has none
PayloadChats == Chats \cup {None}

\* An event arrives with no data object: `const { chatId } = data` throws a
\* TypeError.  In the synchronous listeners nothing catches it and the
\* process exits; in the async message_read listener the destructuring is
\* outside the try, the promise rejects unhandled and the runtime either
\* exits or only warns, depending on its unhandled-rejections mode.
HandlerThrows(c, name, exits) ==
  /\ processUp
  /\ connState[c] = "open"
  /\ name # "message_read" => exits
  /\ processUp' = ~exits
  /\ UNCHANGED authVars
  /\ UNCHANGED editVars
  /\ emitted' = {}
  /\ UNCHANGED gatewayVars
  /\ UNCHANGED <<readCalls, readMsgs>>
  /\ UNCHANGED presenceVars
  /\ UNCHANGED messageVars

\* The gateway with clients that send any payload: with a chat id, without
\* one (chatId is undefined and the room is `chat:undefined`), or no data.
NextPayload ==
  \/ \E t \in Tokens : ConnectAdmitted(t, FALSE)
  \/ \E c \in Conns : Disconnect(c)
  \/ \E c \in Conns, ch \in PayloadChats : JoinChat(c, ch)
  \/ \E c \in Conns, ch \in PayloadChats : LeaveChat(c, ch)
  \/ \E c \in Conns, ch \in PayloadChats : TypingStart(c, ch)
  \/ \E c \in Conns, ch \in PayloadChats : TypingStop(c, ch)
  \/ \E c \in Conns, ch \in PayloadChats, m \in Msgs : MessageRead(c, ch, m)
  \/ \E call \in readCalls, ok \in BOOLEAN : MessageReadSettled(call, ok)
  \/ \E c \in Conns, name \in ClientEvents, x \in BOOLEAN :
       HandlerThrows(c, name, x)

SpecPayload == Init /\ [][NextPayload]_vars

\* The sockets of the gateway while time passes: a socket lives on after
\* the moment its token expires.
NextSession ==
  \/ \E t \in Tokens : ConnectAdmitted(t, FALSE)
  \/ \E c \in Conns : Disconnect(c)
  \/ \E c \in Conns, ch \in Chats : JoinChat(c, ch)
  \/ \E c \in Conns, ch \in Chats : LeaveChat(c, ch)
  \/ \E c \in Conns, ch \in Chats : TypingStart(c, ch)
  \/ \E c \in Conns, ch \in Chats : TypingStop(c, ch)
  \/ \E c \in Conns, ch \in Chats, m \in Msgs : MessageRead(c, ch, m)
  \/ \E call \in readCalls, ok \in BOOLEAN : MessageReadSettled(call, ok)
  \/ Tick

SpecSession == Init /\ [][NextSession]_vars

\* sendMessageToChat next to sockets that join and leave chat rooms.
NextDeliver ==
  \/ \E t \in Tokens : ConnectAdmitted(t, FALSE)
  \/ \E c \in Conns : Disconnect(c)
  \/ \E c \in Conns, ch \in Chats : JoinChat(c, ch)
  \/ \E c \in Conns, ch \in Chats : LeaveChat(c, ch)
  \/ \E u \in Users, ch \in Chats, v \in BOOLEAN : PostStart(u, ch, v)
  \/ \E ok \in BOOLEAN : PostChatCheck(ok)
  \/ \E ok \in BOOLEAN : PostParticipantCheck(ok)
  \/ \E ok \in BOOLEAN : PostInsert(ok)
  \/ \E ok \in BOOLEAN : PostSenderInfo(ok)
  \/ \E ch \in Chats, m \in Msgs, u \in Users, ok \in BOOLEAN :
       sendMessageToChat(ch, m, u, ok)

SpecDeliver == Init /\ [][NextDeliver]_vars

\* ================================================================ properties
Open(c) == connState[c] = "open"
RelayEvents == {"typing_started", "typing_stopped", "message_read"}
AuthErrors == {"Authentication error: No token provided",
               "Authentication error: Invalid token",
               "Authentication error: User not found"}
\* nothing is awaiting the database
Quiescent ==
  /\ post.pc \in {"idle", "done"}
  /\ readCalls = {}
  /\ \A c \in Conns : /\ statusCall[c].online.st # "pending"
                      /\ statusCall[c].offline.st # "pending"

\* C1: whatever connects and disconnects happened, the connected-user registry
\* holds at most one entry per user identifier.
C1_OneEntryPerUser ==
  \A u \in Users \cup {GhostUser} :
    Cardinality({e \in connectedUsers : e.userId = u}) <= 1

\* C1 witness: one user has two sockets open at once and a registry entry.
C1_TwoSocketsOneEntry ==
  \E c1, c2 \in Conns :
    /\ c1 # c2 /\ Open(c1) /\ Open(c2)
    /\ socketUser[c1] = socketUser[c2]
    /\ isUserOnline(socketUser[c1])

\* C2: when user U connects on c1 and then on c2, the entry of U holds c2, and
\* a later disconnect of a socket that is not the entry's socket leaves the
\* registry as it is (only the entry's own socket removes the entry).
C2_StaleDisconnectKeepsEntry ==
  [][\A c \in Conns :
       /\ (connState[c] = "new" /\ connState'[c] = "open")
            => [userId |-> socketUser'[c], socketId |-> c] \in connectedUsers'
       /\ (Open(c) /\ connState'[c] = "closed"
             /\ isUserOnline(socketUser[c])
             /\ getUserSocketId(socketUser[c]) # c)
            => connectedUsers' = connectedUsers]_vars

\* C3: a user_status_changed broadcast happens only for an updateUserStatus
\* call whose handler changed the registry membership of the user; the
\* connect of a user who already has an entry broadcasts nothing.
C3_BroadcastOnlyOnMembershipChange ==
  [][\A c \in Conns :
       /\ (statusCall[c].online.st = "pending"
             /\ statusCall'[c].online.st = "settled"
             /\ emitted' # {})
            => statusCall[c].online.changed
       /\ (statusCall[c].offline.st = "pending"
             /\ statusCall'[c].offline.st = "settled"
             /\ emitted' # {})
            => statusCall[c].offline.changed]_vars

\* C4: isUserOnline(U) is true exactly when U has at least one open
\* authenticated connection.
C4_OnlineIffLiveConnection ==
  \A u \in Users :
    isUserOnline(u) <=> \E c \in Conns : Open(c) /\ socketUser[c] = u

\* C5: a relayed room event (typing_started, typing_stopped, message_read) is
\* never delivered to the socket that caused it and is delivered to every
\* other socket that is in the chat room when the relay is emitted.
C5_RelayExcludesSenderReachesRoom ==
  \A e \in emitted :
    e.name \in RelayEvents =>
      /\ e.from \notin e.to
      /\ \A c \in Conns \ {e.from} :
           ChatRoom(e.chatId) \in rooms[c] <=> c \in e.to

\* C5 witness: a message_read relay whose sender is itself in the room reaches
\* another member.
C5_RelayReachedAnotherMember ==
  \E e \in emitted :
    /\ e.name = "message_read"
    /\ ChatRoom(e.chatId) \in rooms[e.from]
    /\ e.to # {}

\* C6: a socket is admitted only with a token that verifies and whose user
\* the lookup finds; a rejected socket carries an authentication error and
\* has no registry entry, no room, no socket.userId and no status update.
C6_AdmissionRequiresAuthentication ==
  \A c \in Conns :
    /\ connState[c] \in {"open", "closed"} =>
         /\ handshake[c].token.kind = "valid"
         /\ handshake[c].token.userId \in Users
         /\ handshake[c].lookup = "rows"
         /\ socketUser[c] = handshake[c].token.userId
         /\ authError[c] = ""
    /\ connState[c] = "rejected" =>
         /\ authError[c] \in AuthErrors
         /\ ~\E e \in connectedUsers : e.socketId = c
         /\ rooms[c] = {}
         /\ socketUser[c] = None
         /\ statusCall[c] = IdleCalls
         /\ \A e \in emitted : c \notin e.to

\* C6 witness: a socket with a well-signed token of an unknown user was
\* rejected while another socket is admitted and open.
C6_UnknownUserRejected ==
  \E c, d \in Conns :
    /\ connState[c] = "rejected"
    /\ handshake[c].lookup = "no_rows"
    /\ Open(d)

\* C7: the step in which a socket disconnects removes its user from the
\* registry and the socket from every room; once the status update of the
\* disconnect has settled, every other open socket has observed exactly one
\* user_status_changed{isOnline:false} for that user; no event is delivered
\* to a closed socket.
C7_DisconnectCleansUpAndBroadcasts ==
  [][\A c \in Conns :
       /\ (Open(c) /\ connState'[c] = "closed")
            => /\ ~MapHas(connectedUsers', socketUser[c])
               /\ rooms'[c] = {}
       /\ (statusCall[c].offline.st = "pending"
             /\ statusCall'[c].offline.st = "settled")
            => \A d \in Conns \ {c} :
                 (Open(d) /\ socketUser[d] # socketUser[c]) =>
                   Cardinality({e \in emitted' :
                                  /\ e.name = "user_status_changed"
                                  /\ e.userId = socketUser[c]
                                  /\ ~e.isOnline
                                  /\ d \in e.to}) = 1
       /\ connState'[c] = "closed" => \A e \in emitted' : c \notin e.to]_vars

\* C8: once POST /messages/:chatId has answered 201 and nothing is awaiting
\* the database any more, every socket of another participant that was open
\* when the message was stored and still is has received new_message for it;
\* and new_message is only ever received for stored messages.
C8_StoredMessageReachesParticipants ==
  /\ (post.pc = "done" /\ post.status = 201 /\ Quiescent) =>
       \A c \in post.audience :
         Open(c) => <<c, post.msgId>> \in newMessageSeen
  /\ \A p \in newMessageSeen : \E m \in messages : m.id = p[2]

\* C9: when sockets of users A and B are both in chat room r and the message_read
\* handler of A has run to its end, B has received the message_read relay for
\* that message and A has not.
C9_ReadReceiptReachesOtherMember ==
  [][\A call \in readCalls : \A b \in Conns \ {call.from} :
       (/\ call \notin readCalls'
        /\ ChatRoom(call.chatId) \in rooms[call.from]
        /\ ChatRoom(call.chatId) \in rooms[b]
        /\ socketUser[b] # socketUser[call.from])
         => \E e \in emitted' :
              /\ e.name = "message_read"
              /\ e.messageId = call.messageId
              /\ e.chatId = call.chatId
              /\ b \in e.to
              /\ call.from \notin e.to]_vars

\* C10: a notification sent to a user who has no registry entry reaches no
\* socket at all.
C10_NotificationToAbsentUserReachesNobody ==
  \A e \in emitted :
    (e.name = "notification" /\ ~isUserOnline(e.userId)) => e.to = {}

\* the sockets that are in a room under the room table rs
Members(rs, room) == {c \in Conns : room \in rs[c]}
\* the room table after socket c handled join_chat and then leave_chat for ch
JoinThenLeave(c, ch) ==
  socketLeave(socketJoin(rooms, c, ChatRoom(ch)), c, ChatRoom(ch))

\* C11 (as stated): for an open socket c and a chat room r, join_chat followed
\* at once by leave_chat leaves the membership of r as it was before the
\* join, also when c was already in r.
C11_JoinThenLeaveRestoresMembership ==
  \A c \in Conns, ch \in Chats :
    Open(c) =>
      Members(JoinThenLeave(c, ch), ChatRoom(ch)) = Members(rooms, ChatRoom(ch))

\* C11 (amended): join_chat followed at once by leave_chat leaves r with its
\* earlier members except c: the membership is as before the join when c was
\* not in r, and has lost c when c was already in r; no other room changes.
C11_JoinThenLeaveRemovesConnection ==
  \A c \in Conns, ch \in Chats :
    Open(c) =>
      /\ Members(JoinThenLeave(c, ch), ChatRoom(ch))
           = Members(rooms, ChatRoom(ch)) \ {c}
      /\ ChatRoom(ch) \notin rooms[c] => JoinThenLeave(c, ch) = rooms
      /\ \A d \in Conns : JoinThenLeave(c, ch)[d] \ {ChatRoom(ch)}
                            = rooms[d] \ {ChatRoom(ch)}

\* C11 witness: a socket that is already in a chat room next to another
\* member, and a chat room it is not in.
C11_MemberBesideAnother ==
  \E c, d \in Conns, ch, other \in Chats :
    /\ c # d /\ Open(c) /\ Open(d)
    /\ ChatRoom(ch) \in rooms[c] /\ ChatRoom(ch) \in rooms[d]
    /\ ChatRoom(other) \notin rooms[c]

\* C12: join_chat for a room the socket is already in and leave_chat for a
\* room it is not in change nothing; join_chat and leave_chat of socket c for
\* room r change no other room's membership and no other socket's rooms.
C12_JoinLeaveIdempotentIndependent ==
  \A c \in Conns, ch \in Chats :
    Open(c) =>
      LET r == ChatRoom(ch)
          joined == socketJoin(rooms, c, r)
          left == socketLeave(rooms, c, r)
      IN /\ r \in rooms[c] => joined = rooms
         /\ r \notin rooms[c] => left = rooms
         /\ socketJoin(joined, c, r) = joined
         /\ socketLeave(left, c, r) = left
         /\ r \in joined[c] /\ r \notin left[c]
         /\ \A d \in Conns :
              /\ joined[d] \ {r} = rooms[d] \ {r}
              /\ left[d] \ {r} = rooms[d] \ {r}
              /\ d # c => joined[d] = rooms[d] /\ left[d] = rooms[d]

\* C12 witness: a socket is in one chat room and not in another while a
\* second socket is in a chat room too.
C12_InOneRoomNotAnother ==
  \E c, d \in Conns, ch, other \in Chats :
    /\ c # d /\ Open(c) /\ Open(d)
    /\ ChatRoom(ch) \in rooms[c] /\ ChatRoom(other) \notin rooms[c]
    /\ ChatRoom(other) \in rooms[d]

\* C13: an updateUserStatus call that has run to its end has sent the
\* user_status_changed broadcast for its user and value, whether the UPDATE
\* of the users row succeeded or failed.
C13_BroadcastSentWhateverTheUpdate ==
  [][\A c \in Conns :
       /\ (statusCall[c].online.st = "pending"
             /\ statusCall'[c].online.st = "settled")
            => \E e \in emitted' : /\ e.name = "user_status_changed"
                                   /\ e.userId = socketUser[c]
                                   /\ e.isOnline
       /\ (statusCall[c].offline.st = "pending"
             /\ statusCall'[c].offline.st = "settled")
            => \E e \in emitted' : /\ e.name = "user_status_changed"
                                   /\ e.userId = socketUser[c]
                                   /\ ~e.isOnline]_vars

\* C14: a message_read handler that has run to its end has emitted the
\* message_read relay to the other sockets of the chat room, whether the
\* UPDATE of the messages row succeeded or failed.
C14_RelayAttemptedWhateverTheUpdate ==
  [][\A call \in readCalls :
       call \notin readCalls'
         => \E e \in emitted' :
              /\ e.name = "message_read"
              /\ e.from = call.from
              /\ e.chatId = call.chatId
              /\ e.messageId = call.messageId
              /\ e.to = SocketTo(call.from, ChatRoom(call.chatId))]_vars

\* C15: whatever payloads the clients sent (no data object, no chatId), the
\* process is still running and no socket has been put into a room other
\* than its user room and the rooms of chats.
C15_MalformedPayloadIgnored ==
  /\ processUp
  /\ \A c \in Conns :
       rooms[c] \subseteq {UserRoom(socketUser[c])} \cup {ChatRoom(ch) : ch \in Chats}

\* C16: a chat room enters a socket's rooms only by a join_chat of that
\* socket for that room while it is open (never at its creation, never by
\* another socket's event), and a socket that is not open is in no room.
C16_ChatRoomsOnlyByOwnJoin ==
  [][\A c \in Conns :
       /\ connState'[c] # "open" => rooms'[c] = {}
       /\ \A ch \in Chats :
            (ChatRoom(ch) \in rooms'[c] /\ ChatRoom(ch) \notin rooms[c]) =>
              /\ Open(c) /\ connState'[c] = "open"
              /\ rooms' = socketJoin(rooms, c, ChatRoom(ch))]_vars

\* C16 witness: a socket has disconnected while another one is open and in
\* a chat room.
C16_ClosedBesideMember ==
  \E c, d \in Conns, ch \in Chats :
    /\ connState[c] = "closed" /\ rooms[c] = {}
    /\ Open(d) /\ ChatRoom(ch) \in rooms[d]

\* events addressed to one user
TargetedEvents == {"notification", "new_message"}

\* C17 (as stated): a targeted event for user U (notification, new_message)
\* is delivered to no socket other than the one recorded for U in the
\* registry, so to one socket at most.
C17_TargetedOnlyToRegistrySocket ==
  \A e \in emitted :
    e.name \in TargetedEvents =>
      /\ e.to \subseteq {getUserSocketId(e.userId)}
      /\ Cardinality(e.to) <= 1

\* C17 (amended): a targeted event for user U is delivered to every open
\* socket authenticated as U (the members of U's user room) and to no socket
\* of another user.
C17_TargetedToEverySocketOfUser ==
  \A e \in emitted :
    e.name \in TargetedEvents =>
      e.to = {c \in Conns : Open(c) /\ socketUser[c] = e.userId}

\* C17 witness: a targeted event was delivered while its user had two open
\* sockets.
C17_TargetedWithSeveralSockets ==
  \E e \in emitted :
    /\ e.name \in TargetedEvents
    /\ Cardinality(e.to) >= 2

\* C18: relays of one socket go out in the order its events were received:
\* no typing relay of a socket is emitted to a room while a message_read of
\* that socket for that room, received earlier, has not been relayed yet.
C18_RelayFollowsEventOrder ==
  \A e \in emitted :
    e.name \in {"typing_started", "typing_stopped"} =>
      ~ \E call \in readCalls :
          call.from = e.from /\ call.chatId = e.chatId

C20_RedeemedTokenRejected ==
  \A r \in Reqs :
    (refresh[r].pc = "done" /\ refresh[r].after) =>
      refresh[r].status = 401 /\ refresh[r].newToken = NoJwt

\* C21: while a socket is open no step changes the user it was admitted as
\* or its handshake record, and a socket leaves the open state only when its
\* own disconnect handler runs (which issues the offline status call), never
\* because time has passed.
C21_IdentityFixedNoEviction ==
  [][\A c \in Conns :
       Open(c) =>
         /\ socketUser'[c] = socketUser[c]
         /\ handshake'[c] = handshake[c]
         /\ connState'[c] \in {"open", "closed"}
         /\ connState'[c] = "closed" =>
              /\ clock' = clock
              /\ statusCall[c].offline.st = "idle"
              /\ statusCall'[c].offline.st = "pending"]_vars

\* C21 witness: time has passed since the handshake and the socket is still
\* open as the same user, in a chat room it joined.
C21_OpenAfterTimePassed ==
  \E c \in Conns, ch \in Chats :
    /\ Open(c) /\ clock = MaxClock
    /\ socketUser[c] = handshake[c].token.userId
    /\ ChatRoom(ch) \in rooms[c]

\* C22: a step issues at most one mark-as-read update and emits no
\* message_read relay with it; a message_read relay is emitted only in the
\* step in which the update issued for that very event completes.
C22_OneUpdateThenRelay ==
  [][/\ Cardinality(readCalls' \ readCalls) <= 1
     /\ readCalls' \ readCalls # {} =>
          \A e \in emitted' : e.name # "message_read"
     /\ \A e \in emitted' :
          e.name = "message_read" =>
            LET call == [from |-> e.from, chatId |-> e.chatId,
                         messageId |-> e.messageId]
            IN call \in readCalls /\ call \notin readCalls']_vars

\* C22 witness: a message_read relay has just reached another socket and no
\* mark-as-read update is in flight any more.
C22_RelayAfterUpdate ==
  \E e \in emitted :
    /\ e.name = "message_read" /\ e.to # {}
    /\ readCalls = {}

\* no updateUserStatus call is awaiting its UPDATE
StatusSettled ==
  \A c \in Conns : /\ statusCall[c].online.st # "pending"
                   /\ statusCall[c].offline.st # "pending"

\* C23: whenever every status update issued so far has completed, the
\* is_online flag of each user equals whether the user has a registry entry.
C23_PersistedFlagMatchesRegistry ==
  StatusSettled => \A u \in Users : dbOnline[u] <=> isUserOnline(u)

\* the new_message events of the last step
NewMessages == {e \in emitted : e.name = "new_message"}

C25_OnlySenderEditsOrDeletes ==
  [][/\ (modify'.pc = "done" /\ modify.pc # "done"
           /\ modify'.status \in {403, 404}) =>
          /\ messages' = messages /\ edited' = edited
          /\ (modify'.status = 404) <=>
               ~ \E m \in messages : m.id = modify.msgId
          /\ (modify'.status = 403) <=>
               \E m \in messages :
                 m.id = modify.msgId /\ m.senderId # modify.userId
     /\ \A m \in messages :
          (m \notin messages' \/ (m.id \in edited') # (m.id \in edited)) =>
            /\ modify.pc = "write" /\ modify'.status = 200
            /\ modify.msgId = m.id /\ modify.userId = m.senderId]_vars

\* C25 witness: a request of a user who is not the sender has been answered
\* 403 and the message is still stored, unedited.
C25_ForeignEditRefused ==
  /\ modify.pc = "done" /\ modify.status = 403
  /\ \E m \in messages :
       m.id = modify.msgId /\ m.senderId # modify.userId /\ m.id \notin edited

\* C26: every registry entry names an open socket that was admitted as the
\* entry's user, and no socket of that user was admitted after it (socket
\* ids are handed out in connection order).
C26_EntryIsLatestOpenSocket ==
  \A e \in connectedUsers :
    /\ e.socketId \in Conns
    /\ Open(e.socketId)
    /\ socketUser[e.socketId] = e.userId
    /\ \A c \in Conns :
         (connState[c] \in {"open", "closed"} /\ socketUser[c] = e.userId)
           => c <= e.socketId

\* C26 witness: a user's entry names the later of two open sockets of the
\* user.
C26_EntryNamesLaterSocket ==
  \E e \in connectedUsers, c \in Conns :
    /\ c < e.socketId /\ Open(c) /\ socketUser[c] = e.userId
    /\ Open(e.socketId)

\* C27: every relayed typing_started, typing_stopped and message_read event
\* carries as userId the user its emitting socket was admitted as at the
\* handshake, whatever user id the payload claimed.
C27_RelayCarriesAuthenticatedUser ==
  \A e \in emitted :
    e.name \in RelayEvents =>
      /\ e.from \in Conns
      /\ e.userId = socketUser[e.from]
      /\ e.userId = handshake[e.from].token.userId

\* C27 witness: a relayed event reached a socket of another user.
C27_RelaySeenByOtherUser ==
  \E e \in emitted, d \in Conns :
    /\ e.name \in RelayEvents
    /\ d \in e.to /\ socketUser[d] # e.userId

\* C28: the gateway checks neither room membership nor chat participation:
\* join_chat is accepted from every open socket for every chat id, existing or
\* not; every typing relay goes to all members of the named room but the
\* emitter, member or not; and every message_read event whose update settles
\* is relayed to all members of the named room but the emitter.
C28_RelayAndJoinUnchecked ==
  [][/\ \A c \in Conns, ch \in Chats \cup {GhostChat} :
          (Open(c) /\ processUp) => ENABLED JoinChat(c, ch)
     /\ \A e \in emitted' :
          e.name \in {"typing_started", "typing_stopped"}
            => e.to = Members(rooms', ChatRoom(e.chatId)) \ {e.from}
     /\ \A call \in readCalls :
          call \notin readCalls'
            => \E e \in emitted' :
                 /\ e.name = "message_read"
                 /\ e.from = call.from
                 /\ e.chatId = call.chatId
                 /\ e.to = Members(rooms', ChatRoom(call.chatId)) \ {call.from}]_vars

\* C29: once every status update has completed, the last user_status_changed
\* broadcast for a user says isOnline exactly as the registry has an entry for
\* the user. A successful updateUserStatus call writes is_online and
\* broadcasts the same value in one step, so a persisted TRUE means the last
\* broadcast for the user said isOnline = true; then the user must have a
\* registry entry.
C29_LastBroadcastMatchesRegistry ==
  StatusSettled =>
    \A u \in Users : dbOnline[u] => isUserOnline(u)

\* C30: of two refresh requests that present the same refresh token and both
\* arrived before that token had been redeemed (so they overlap at their
\* await points), at most one is answered 200 with new tokens.
C30_ConcurrentRefreshRedeemsOnce ==
  \A r1 \in Reqs, r2 \in Reqs :
    ~ (/\ r1 # r2
       /\ refresh[r1].pc = "done" /\ refresh[r1].status = 200
       /\ refresh[r2].pc = "done" /\ refresh[r2].status = 200
       /\ refresh[r1].token = refresh[r2].token
       /\ ~refresh[r1].after /\ ~refresh[r2].after)

====
